---------------------------- MODULE Spec2Model ----------------------------
(***************************************************************************)
(* Model of tasks/agent.py: the `build`, `refresh_assets` and `run` tasks. *)
(*                                                                         *)
(* The state is the part of the working tree the tasks write (BIN_PATH,    *)
(* BIN_PATH/dist and BIN_PATH/dd-agent), the host the tasks run on, and    *)
(* the locals and position of the task under way.  Every external command  *)
(* (ctx.run) and every filesystem call may fail; a failure raises, and     *)
(* nothing in agent.py catches it.                                         *)
(*                                                                         *)
(* Two specifications:                                                     *)
(*   Spec      any number of task invocations, one after the other, on the *)
(*             same working tree; the command-line arguments are consumed  *)
(*             by the first step of build and not kept in the state.       *)
(*   SpecOnce  one invocation of build on a fresh working tree, with the   *)
(*             command-line arguments kept in `argv`.                      *)
(***************************************************************************)
EXTENDS Integers, Sequences, FiniteSets, TLC

\* Longest --build-include / --build-exclude list that is enumerated.
MaxLen == 2

(***************************************************************************)
(* Module-level data of tasks/agent.py                                     *)
(***************************************************************************)
BIN_PATH == "./bin/agent"

DEFAULT_BUILD_TAGS ==
    << "apm", "consul", "containerd", "python", "cri", "docker", "ec2",
       "etcd", "gce", "jmx", "kubeapiserver", "kubelet", "log", "netcgo",
       "systemd", "process", "zk", "zlib", "secrets" >>

AGENT_CORECHECKS ==
    << "containerd", "cpu", "cri", "docker", "file_handle", "go_expvar",
       "io", "jmx", "kubernetes_apiserver", "load", "memory", "ntp",
       "systemd", "uptime", "winproc" >>

PUPPY_CORECHECKS ==
    << "cpu", "disk", "io", "load", "memory", "network", "ntp", "uptime" >>

(***************************************************************************)
(* tasks/build_tags.py is imported by agent.py; its data and functions are *)
(* taken from the specification's TagCatalog and TagSetResolver.           *)
(***************************************************************************)
LINUX_ONLY_TAGS == << "containerd", "cri", "netcgo", "systemd" >>

REDHAT_AND_DEBIAN_ONLY_TAGS == << "systemd" >>

REDHAT_AND_DEBIAN_DIST == { "debian", "ubuntu", "centos", "redhat" }

PUPPY_TAGS == << "zlib" >>

Range(s) == { s[i] : i \in 1..Len(s) }

ALL_TAGS ==
    Range(DEFAULT_BUILD_TAGS) \cup Range(LINUX_ONLY_TAGS)
        \cup Range(REDHAT_AND_DEBIAN_ONLY_TAGS) \cup Range(PUPPY_TAGS)

\* get_default_build_tags(puppy=True): the catalog's minimal tag set.
get_default_build_tags == PUPPY_TAGS

RECURSIVE Without(_, _)
\* The items of `include` that are not in `exclude`, first occurrences only,
\* in the order of `include`.
Without(include, exclude) ==
    IF include = << >> THEN << >>
    ELSE LET rest == Without(SubSeq(include, 1, Len(include) - 1), exclude)
             last == include[Len(include)]
         IN  IF last \in Range(exclude) \/ last \in Range(rest)
             THEN rest ELSE Append(rest, last)

\* get_build_tags(include, exclude): a tag outside the catalog is a
\* configuration error, otherwise include minus exclude.
get_build_tags(include, exclude) ==
    IF Range(include) \cup Range(exclude) \subseteq ALL_TAGS
    THEN [error |-> FALSE, tags |-> Without(include, exclude)]
    ELSE [error |-> TRUE, tags |-> << >>]

(***************************************************************************)
(* The host: sys.platform and platform.linux_distribution()[0].lower()     *)
(***************************************************************************)
Hosts ==
    { [platform |-> "linux2", distname |-> "debian"],
      [platform |-> "linux",  distname |-> "arch"],
      [platform |-> "darwin", distname |-> ""],
      [platform |-> "win32",  distname |-> ""] }

\* sys.platform.startswith('linux')
startswith_linux(p) == p \in { "linux", "linux2" }

(***************************************************************************)
(* Command-line arguments.  An option that is not given is None; a given   *)
(* list is what str.split(",") returns, which is never empty.              *)
(***************************************************************************)
InputTags == { "python", "systemd", "bogus" }

RECURSIVE SeqsOfLen(_)
SeqsOfLen(n) ==
    IF n = 0 THEN { << >> }
    ELSE { Append(s, t) : s \in SeqsOfLen(n - 1), t \in InputTags }

SplitLists == UNION { SeqsOfLen(n) : n \in 1..MaxLen }

None == [none |-> TRUE, list |-> << >>]

TagListOptions == { None } \cup { [none |-> FALSE, list |-> l] : l \in SplitLists }

BuildArgs ==
    [ build_include : TagListOptions, build_exclude : TagListOptions,
      puppy : BOOLEAN, development : BOOLEAN, skip_assets : BOOLEAN ]

NoArgs ==
    [ build_include |-> None, build_exclude |-> None,
      puppy |-> FALSE, development |-> TRUE, skip_assets |-> FALSE ]

NoErr == [kind |-> "", what |-> ""]

NoRet == [returned |-> FALSE, none |-> TRUE, value |-> << >>]

VARIABLES
    host,          \* the host profile, fixed for the life of the tree
    argv,          \* SpecOnce: the arguments of the invocation
    caller,        \* "build" or "run": the task that was invoked, "" if none
    pc,            \* position of the task under way
    build_tags,    \* build's local of that name
    puppy,         \* build's / refresh_assets' parameters
    development,
    skip_assets,
    cmds,          \* the commands handed to ctx.run by this invocation
    idx,           \* refresh_assets: next filesystem operation of the run
    staged,        \* refresh_assets: operations completed by this run
    err,           \* the exception that ended the invocation, if any
    ret,           \* what build returned
    binpath,       \* os.path.exists(BIN_PATH)
    dist_folder,   \* BIN_PATH/dist: [exists, files]
    bin_ddagent    \* os.path.exists(BIN_PATH/dd-agent)

vars == << host, argv, caller, pc, build_tags, puppy, development, skip_assets,
           cmds, idx, staged, err, ret, binpath, dist_folder, bin_ddagent >>

locals == << build_tags, puppy, development, skip_assets >>
tree   == << binpath, dist_folder, bin_ddagent >>

NoDist == [exists |-> FALSE, files |-> {}]

(***************************************************************************)
(* build, lines 88-128: parse the options, add the platform's exclusions,  *)
(* generate the Windows resources, resolve the tags.                       *)
(***************************************************************************)
RECURSIVE AppendMissing(_, _)
\* for ex in tags: if ex not in build_exclude: build_exclude.append(ex)
AppendMissing(build_exclude, tags) ==
    IF tags = << >> THEN build_exclude
    ELSE AppendMissing(
            IF Head(tags) \in Range(build_exclude) THEN build_exclude
            ELSE Append(build_exclude, Head(tags)),
            Tail(tags))

\* build_include = DEFAULT_BUILD_TAGS if build_include is None else split
parse_include(opt) == IF opt.none THEN DEFAULT_BUILD_TAGS ELSE opt.list

\* build_exclude = [] if build_exclude is None else split
parse_exclude(opt) == IF opt.none THEN << >> ELSE opt.list

platform_excludes_no_linux_rule(h, build_exclude) ==
    IF h.distname \notin REDHAT_AND_DEBIAN_DIST
    THEN AppendMissing(build_exclude, REDHAT_AND_DEBIAN_ONLY_TAGS)
    ELSE build_exclude

\* lines 94-104: build_exclude after the two platform rules
platform_excludes(h, build_exclude) ==
    LET linux_rule == IF ~ startswith_linux(h.platform)
                      THEN AppendMissing(build_exclude, LINUX_ONLY_TAGS)
                      ELSE build_exclude
    IN  IF h.distname \notin REDHAT_AND_DEBIAN_DIST
        THEN AppendMissing(linux_rule, REDHAT_AND_DEBIAN_ONLY_TAGS)
        ELSE linux_rule

select_build_tags_no_override(is_puppy, build_include, build_exclude) ==
    get_build_tags(build_include, build_exclude)

\* lines 124-128: puppy overrides --build-include and --build-exclude
select_build_tags(is_puppy, build_include, build_exclude) ==
    IF is_puppy
    THEN [error |-> FALSE, tags |-> get_default_build_tags]
    ELSE get_build_tags(build_include, build_exclude)

Cmd(name, tags) == [cmd |-> name, tags |-> tags]

\* lines 106-122: the commands run on win32 before the tags are resolved;
\* `failed` is the command that failed, "" if none did.
rsrc_cmds(h, failed) ==
    IF h.platform # "win32" THEN << >>
    ELSE IF failed = "windmc" THEN << Cmd("windmc", "") >>
    ELSE << Cmd("windmc", ""), Cmd("windres", "") >>

RsrcOutcomes(h) == IF h.platform = "win32" THEN { "", "windmc", "windres" } ELSE { "" }

\* The first step of build with arguments a, called by `who`.
BuildBegin(a, who) ==
    LET build_include == parse_include(a.build_include)
        build_exclude == platform_excludes(host, parse_exclude(a.build_exclude))
        r == select_build_tags(a.puppy, build_include, build_exclude)
    IN  /\ caller' = who
        /\ puppy' = a.puppy
        /\ development' = a.development
        /\ skip_assets' = a.skip_assets
        /\ idx' = 1
        /\ staged' = << >>
        /\ ret' = NoRet
        /\ \E failed \in RsrcOutcomes(host) :
              /\ cmds' = rsrc_cmds(host, failed)
              /\ IF failed # ""
                 THEN /\ err' = [kind |-> "UnexpectedExit", what |-> failed]
                      /\ pc' = "failed"
                      /\ build_tags' = << >>
                 ELSE IF r.error
                 THEN /\ err' = [kind |-> "ConfigurationError", what |-> "build tags"]
                      /\ pc' = "failed"
                      /\ build_tags' = << >>
                 ELSE /\ err' = NoErr
                      /\ pc' = "go_build"
                      /\ build_tags' = r.tags
        /\ UNCHANGED << host, argv, tree >>

(***************************************************************************)
(* build, lines 130-156: compile, generate, stage.                         *)
(***************************************************************************)
RECURSIVE Join(_)
\* " ".join(build_tags)
Join(tags) ==
    IF tags = << >> THEN ""
    ELSE IF Len(tags) = 1 THEN tags[1]
    ELSE tags[1] \o " " \o Join(Tail(tags))

ctx_run_warn(ok, next) == next

\* ctx.run(...) raises when the command fails; build catches nothing.
ctx_run(ok, next) == IF ok THEN next ELSE "failed"

\* line 142: ctx.run("go build ... -tags ... -o BIN_PATH/agent ...").  A build
\* that succeeded has written the binary, so BIN_PATH exists afterwards.
go_build ==
    /\ pc = "go_build"
    /\ \E ok \in BOOLEAN :
          /\ pc' = ctx_run(ok, "go_generate")
          /\ err' = IF ok THEN err ELSE [kind |-> "UnexpectedExit", what |-> "go build"]
          /\ binpath' = (binpath \/ ok)
    /\ cmds' = Append(cmds, Cmd("go build", Join(build_tags)))
    /\ UNCHANGED << host, argv, caller, locals, idx, staged, ret, dist_folder, bin_ddagent >>

after_generate_always(skip) == "ensure_bin"

\* lines 155-156: if not skip_assets: refresh_assets(...)
after_generate(skip) == IF ~ skip THEN "ensure_bin" ELSE "build_return"

\* line 153: ctx.run("go generate ...")
go_generate ==
    /\ pc = "go_generate"
    /\ \E ok \in BOOLEAN :
          /\ pc' = ctx_run(ok, after_generate(skip_assets))
          /\ err' = IF ok THEN err ELSE [kind |-> "UnexpectedExit", what |-> "go generate"]
    /\ cmds' = Append(cmds, Cmd("go generate", ""))
    /\ UNCHANGED << host, argv, caller, locals, idx, staged, ret, tree >>

(***************************************************************************)
(* refresh_assets, lines 163-170: BIN_PATH is ensured, dist is wiped and   *)
(* recreated.                                                              *)
(***************************************************************************)
StagingError(what) == [kind |-> "StagingError", what |-> what]

\* lines 164-165
refresh_ensure_bin ==
    /\ pc = "ensure_bin"
    /\ \E ok \in (IF binpath THEN { TRUE } ELSE BOOLEAN) :
          /\ binpath' = (binpath \/ ok)
          /\ pc' = IF ok THEN "rmtree" ELSE "failed"
          /\ err' = IF ok THEN err ELSE StagingError(BIN_PATH)
    /\ UNCHANGED << host, argv, caller, locals, cmds, idx, staged, ret,
                    dist_folder, bin_ddagent >>

\* lines 167-169
refresh_rmtree ==
    /\ pc = "rmtree"
    /\ \E ok \in (IF dist_folder.exists THEN BOOLEAN ELSE { TRUE }) :
          /\ dist_folder' = IF ok THEN NoDist ELSE dist_folder
          /\ pc' = IF ok THEN "mkdir_dist" ELSE "failed"
          /\ err' = IF ok THEN err ELSE StagingError("dist")
    /\ UNCHANGED << host, argv, caller, locals, cmds, idx, staged, ret,
                    binpath, bin_ddagent >>

\* line 170
refresh_mkdir ==
    /\ pc = "mkdir_dist"
    /\ \E ok \in BOOLEAN :
          /\ dist_folder' = IF ok THEN [exists |-> TRUE, files |-> {}] ELSE dist_folder
          /\ pc' = IF ok THEN "copy" ELSE "failed"
          /\ err' = IF ok THEN err ELSE StagingError("dist")
    /\ UNCHANGED << host, argv, caller, locals, cmds, idx, staged, ret,
                    binpath, bin_ddagent >>

(***************************************************************************)
(* refresh_assets, lines 172-196: the copies, in the order of the code.    *)
(* An operation is [op, src, dst]; dst is relative to BIN_PATH/dist.       *)
(***************************************************************************)
Op(kind, src, dst) == [op |-> kind, src |-> src, dst |-> dst]

\* lines 172-175
python_ops(tags) ==
    IF "python" \in Range(tags)
    THEN << Op("copy_tree", "./cmd/agent/dist/checks/", "checks"),
            Op("copy_tree", "./cmd/agent/dist/utils/", "utils"),
            Op("copy", "./cmd/agent/dist/config.py", "config.py") >>
    ELSE << >>

ddagent_ops_no_move(is_puppy) ==
    IF ~ is_puppy
    THEN << Op("copy", "./cmd/agent/dist/dd-agent", "dd-agent") >>
    ELSE << >>

\* lines 176-180: the stub is copied into dist, then moved to BIN_PATH
ddagent_ops(is_puppy) ==
    IF ~ is_puppy
    THEN << Op("copy", "./cmd/agent/dist/dd-agent", "dd-agent"),
            Op("move", "dd-agent", "../dd-agent") >>
    ELSE << >>

\* lines 183-185
config_ops(h) ==
    (IF startswith_linux(h.platform)
     THEN << Op("copy", "./cmd/agent/dist/system-probe.yaml", "system-probe.yaml") >>
     ELSE << >>)
    \o << Op("copy", "./cmd/agent/dist/datadog.yaml", "datadog.yaml") >>

\* "conf.d/{}.d/".format(check)
check_dir(check) == "conf.d/" \o check \o ".d/"

\* lines 187-189
corecheck_ops(is_puppy) ==
    LET checks == IF ~ is_puppy THEN AGENT_CORECHECKS ELSE PUPPY_CORECHECKS
    IN  [ i \in 1..Len(checks) |->
            Op("copy_tree", "./cmd/agent/dist/" \o check_dir(checks[i]),
               check_dir(checks[i])) ]

apm_ops_always(tags) ==
    << Op("copy", "./cmd/agent/dist/conf.d/apm.yaml.default",
          "conf.d/apm.yaml.default") >>

\* lines 190-191
apm_ops(tags) ==
    IF "apm" \in Range(tags)
    THEN << Op("copy", "./cmd/agent/dist/conf.d/apm.yaml.default",
               "conf.d/apm.yaml.default") >>
    ELSE << >>

\* lines 193-196: the two overlays land in the root of dist; they are named
\* by their source.
overlay_ops(dev) ==
    << Op("copy_tree", "./pkg/status/dist/", "./pkg/status/dist/*"),
       Op("copy_tree", "./cmd/agent/gui/views", "views") >>
    \o (IF dev THEN << Op("copy_tree", "./dev/dist/", "./dev/dist/*") >> ELSE << >>)

refresh_plan(tags, dev, is_puppy, h) ==
    python_ops(tags) \o ddagent_ops(is_puppy) \o config_ops(h)
        \o corecheck_ops(is_puppy) \o apm_ops(tags) \o overlay_ops(dev)

Plan == refresh_plan(build_tags, development, puppy, host)

after_failure_ignored(i) == [pc |-> "copy", idx |-> i + 1]

\* An exception of copy_tree, shutil.copy or shutil.move leaves
\* refresh_assets, and build, at the failing call.
after_failure(i) == [pc |-> "failed", idx |-> i]

\* One call of copy_tree / shutil.copy / shutil.move.  A call that fails may
\* have written part of its destination.
refresh_copy ==
    /\ pc = "copy"
    /\ idx <= Len(Plan)
    /\ LET o == Plan[idx]
       IN  \E ok \in BOOLEAN, partial \in BOOLEAN :
             /\ ok => ~ partial
             /\ IF o.op = "move"
                THEN /\ ok => o.src \in dist_folder.files
                     /\ dist_folder' =
                           IF ok
                           THEN [dist_folder EXCEPT !.files = @ \ { o.src }]
                           ELSE dist_folder
                     /\ bin_ddagent' = (bin_ddagent \/ ok \/ partial)
                ELSE /\ dist_folder' =
                           IF ok \/ partial
                           THEN [dist_folder EXCEPT !.files = @ \cup { o.dst }]
                           ELSE dist_folder
                     /\ bin_ddagent' = bin_ddagent
             /\ IF ok
                THEN /\ staged' = Append(staged, o)
                     /\ idx' = idx + 1
                     /\ pc' = "copy"
                     /\ err' = err
                ELSE /\ staged' = staged
                     /\ idx' = after_failure(idx).idx
                     /\ pc' = after_failure(idx).pc
                     /\ err' = StagingError(o.dst)
    /\ UNCHANGED << host, argv, caller, locals, cmds, ret, binpath >>

\* refresh_assets returns to build, which has nothing left to do.
refresh_return ==
    /\ pc = "copy"
    /\ idx > Len(Plan)
    /\ pc' = "build_return"
    /\ UNCHANGED << host, argv, caller, locals, cmds, idx, staged, err, ret, tree >>

build_return_tags(tags) == [returned |-> TRUE, none |-> FALSE, value |-> tags]

\* build has no return statement: the call evaluates to None.
build_return_value(tags) == [returned |-> TRUE, none |-> TRUE, value |-> << >>]

build_return ==
    /\ pc = "build_return"
    /\ ret' = build_return_value(build_tags)
    /\ pc' = IF caller = "run" THEN "run_agent" ELSE "done"
    /\ UNCHANGED << host, argv, caller, locals, cmds, idx, staged, err, tree >>

(***************************************************************************)
(* run, lines 208-211                                                      *)
(***************************************************************************)
\* line 211: ctx.run(BIN_PATH/agent); the value of build(...) is not used.
run_agent ==
    /\ pc = "run_agent"
    /\ \E ok \in BOOLEAN :
          /\ pc' = ctx_run(ok, "done")
          /\ err' = IF ok THEN err ELSE [kind |-> "UnexpectedExit", what |-> "agent"]
    /\ cmds' = Append(cmds, Cmd("agent", ""))
    /\ UNCHANGED << host, argv, caller, locals, idx, staged, ret, tree >>

(***************************************************************************)
(* Invocations                                                             *)
(***************************************************************************)
\* inv agent.build ...
InvokeBuild ==
    /\ pc = "idle"
    /\ \E a \in BuildArgs : BuildBegin(a, "build")

\* inv agent.run ...: build is called with development and skip_assets at
\* their defaults, unless --skip-build.
InvokeRun ==
    /\ pc = "idle"
    /\ \/ \E a \in BuildArgs :
             /\ a.development
             /\ ~ a.skip_assets
             /\ BuildBegin(a, "run")
       \/ /\ caller' = "run"
          /\ pc' = "run_agent"
          /\ UNCHANGED << host, argv, locals, cmds, idx, staged, err, ret, tree >>

\* The inv process ends; the next one starts with nothing but the tree.
Exit ==
    /\ pc \in { "done", "failed" }
    /\ pc' = "idle"
    /\ caller' = ""
    /\ build_tags' = << >>
    /\ puppy' = FALSE
    /\ development' = TRUE
    /\ skip_assets' = FALSE
    /\ cmds' = << >>
    /\ idx' = 1
    /\ staged' = << >>
    /\ err' = NoErr
    /\ ret' = NoRet
    /\ UNCHANGED << host, argv, tree >>

\* SpecOnce: build starts with the arguments in argv.
build_argv ==
    /\ pc = "invoked"
    /\ BuildBegin(argv, "build")

InitLocals ==
    /\ caller = ""
    /\ build_tags = << >>
    /\ puppy = FALSE
    /\ development = TRUE
    /\ skip_assets = FALSE
    /\ cmds = << >>
    /\ idx = 1
    /\ staged = << >>
    /\ err = NoErr
    /\ ret = NoRet

InitTree ==
    /\ binpath = FALSE
    /\ dist_folder = NoDist
    /\ bin_ddagent = FALSE

Init ==
    /\ host \in Hosts
    /\ argv = NoArgs
    /\ pc = "idle"
    /\ InitLocals
    /\ InitTree

Next ==
    \/ InvokeBuild
    \/ InvokeRun
    \/ go_build
    \/ go_generate
    \/ refresh_ensure_bin
    \/ refresh_rmtree
    \/ refresh_mkdir
    \/ refresh_copy
    \/ refresh_return
    \/ build_return
    \/ run_agent
    \/ Exit

Spec == Init /\ [][Next]_vars

InitOnce ==
    /\ host \in Hosts
    /\ argv \in BuildArgs
    /\ pc = "invoked"
    /\ InitLocals
    /\ InitTree

NextOnce ==
    \/ build_argv
    \/ go_build
    \/ go_generate
    \/ refresh_ensure_bin
    \/ refresh_rmtree
    \/ refresh_mkdir
    \/ refresh_copy
    \/ refresh_return
    \/ build_return

SpecOnce == InitOnce /\ [][NextOnce]_vars

(***************************************************************************)
(* Properties                                                              *)
(***************************************************************************)
\* PlatformConstraintResolver: the exclusion groups that apply to a host.
PlatformExclusions(h) ==
    (IF startswith_linux(h.platform) THEN {} ELSE Range(LINUX_ONLY_TAGS))
    \cup (IF h.distname \in REDHAT_AND_DEBIAN_DIST THEN {}
          ELSE Range(REDHAT_AND_DEBIAN_ONLY_TAGS))

Compiled == \E i \in 1..Len(cmds) : cmds[i].cmd = "go build"

\* build got past line 128 with a tag set
Resolved == pc \notin { "idle", "invoked" } /\ err.kind # "ConfigurationError"
                /\ err.what \notin { "windmc", "windres" }

StagingDone == pc \in { "copy", "build_return", "run_agent", "done", "failed" }
                   /\ idx > Len(Plan)

(***************************************************************************)
(* The asset manifest that refresh_assets amounts to: each entry is a      *)
(* trigger and the set of paths it puts under BIN_PATH/dist.               *)
(***************************************************************************)
Entry(kind, tag, outputs) == [trigger |-> kind, tag |-> tag, outputs |-> outputs]

CheckDirs(checks) == { check_dir(checks[i]) : i \in 1..Len(checks) }

AssetManifest ==
    { Entry("tag", "python", { "checks", "utils", "config.py" }),
      Entry("tag", "apm", { "conf.d/apm.yaml.default" }),
      Entry("always", "", { "datadog.yaml", "./pkg/status/dist/*", "views" }),
      Entry("minimal-only", "", CheckDirs(PUPPY_CORECHECKS)),
      Entry("full-only", "", CheckDirs(AGENT_CORECHECKS)),
      Entry("linux-only", "", { "system-probe.yaml" }),
      Entry("development", "", { "./dev/dist/*" }) }

\* AssetManifest.EntriesFor(tagSet, minimalProfile): always, minimal-only iff
\* the minimal profile is requested, a tag iff it is in the tag set.
EntriesFor(tags, minimal) ==
    { e \in AssetManifest :
        \/ e.trigger = "always"
        \/ e.trigger = "minimal-only" /\ minimal
        \/ e.trigger = "tag" /\ e.tag \in Range(tags) }

\* The same, with the three triggers the code has besides.
EntriesForHost(tags, minimal, dev, h) ==
    EntriesFor(tags, minimal) \cup
    { e \in AssetManifest :
        \/ e.trigger = "full-only" /\ ~ minimal
        \/ e.trigger = "linux-only" /\ startswith_linux(h.platform)
        \/ e.trigger = "development" /\ dev }

Outputs(entries) == UNION { e.outputs : e \in entries }

\* C3 as stated (staging consistency): after a successful refresh_assets the
\* staged tree holds exactly the outputs of the entries triggered by "always",
\* by "minimal-only" under puppy, or by a tag of the tag set.
C3_StagingConsistency_Original ==
    StagingDone =>
        dist_folder.files = Outputs(EntriesFor(build_tags, puppy))

\* C3 as amended: after a successful refresh_assets the staged tree holds
\* exactly the outputs of the entries triggered by "always", by "minimal-only"
\* under puppy, by a tag of the tag set, by the full profile (not puppy), by a
\* Linux host, or by the development flag.
C3_StagingConsistency ==
    StagingDone =>
        dist_folder.files =
            Outputs(EntriesForHost(build_tags, puppy, development, host))

\* a full-profile run without apm and without the development overlay
C3_Witness ==
    /\ StagingDone
    /\ pc = "done"
    /\ ~ puppy
    /\ ~ development
    /\ "apm" \notin Range(build_tags)
    /\ "python" \in Range(build_tags)
    /\ "conf.d/apm.yaml.default" \notin dist_folder.files
    /\ "config.py" \in dist_folder.files

StagedDsts == { staged[i].dst : i \in 1..Len(staged) }

Moved == \E i \in 1..Len(staged) : staged[i].op = "move"

\* C4 as stated (wipe before populate): after a successful staging run every
\* asset in the staged tree and at the relocated stub's place is one that this
\* run staged.
C4_WipeBeforePopulate ==
    StagingDone =>
        /\ dist_folder.files \subseteq StagedDsts
        /\ bin_ddagent => Moved

\* C5 (compiler failure is fatal): a step that leaves go build or go generate
\* failed ends build there, with no staging operation done and the staged tree
\* and the stub as they were.
C5_CompilerFailureFatal ==
    [][ err'.what \in { "go build", "go generate" } =>
            /\ pc' = "failed"
            /\ staged' = << >>
            /\ dist_folder' = dist_folder
            /\ bin_ddagent' = bin_ddagent ]_vars

\* go build failed over a tree an earlier run had staged
C5_Witness ==
    /\ pc = "failed"
    /\ err.what = "go build"
    /\ ~ skip_assets
    /\ dist_folder.exists
    /\ "datadog.yaml" \in dist_folder.files
    /\ staged = << >>

HasUnknown(opt) == ~ (Range(opt.list) \subseteq ALL_TAGS)

\* C6 as stated (unknown tag): when the include or the exclude list names a
\* tag outside the catalog, build fails with a configuration error before any
\* command is run and before the tree is touched.
C6_UnknownTagFailsFirst ==
    ( pc # "invoked"
      /\ (HasUnknown(argv.build_include) \/ HasUnknown(argv.build_exclude)) ) =>
        /\ pc = "failed"
        /\ err.kind = "ConfigurationError"
        /\ cmds = << >>
        /\ ~ binpath /\ dist_folder = NoDist /\ ~ bin_ddagent

\* C7 (skip_assets): no step of a build called with skip_assets enters
\* refresh_assets or changes the staged tree or the stub.
C7_SkipAssetsFrame ==
    [][ (skip_assets' /\ pc' # "idle") =>
            /\ pc' \notin { "ensure_bin", "rmtree", "mkdir_dist", "copy" }
            /\ staged' = << >>
            /\ dist_folder' = dist_folder
            /\ bin_ddagent' = bin_ddagent ]_vars

\* a build with skip_assets done over a tree staged for other tags
C7_Witness ==
    /\ pc = "done"
    /\ skip_assets
    /\ "python" \notin Range(build_tags)
    /\ "checks" \in dist_folder.files
    /\ bin_ddagent
    /\ puppy

CopyFailed == err.kind = "StagingError" /\ err.what \notin { BIN_PATH, "dist" }

\* C8 (copy failure): when a copy or the move fails, the run stops at that
\* operation, the error names its destination, the operations before it are the
\* ones done and what they staged is in place, and no later operation of the
\* run has written anything.
C8_CopyFailureAborts ==
    CopyFailed =>
        /\ pc = "failed"
        /\ idx <= Len(Plan)
        /\ err.what = Plan[idx].dst
        /\ staged = SubSeq(Plan, 1, idx - 1)
        /\ \A i \in 1..Len(staged) :
              IF staged[i].op = "move" THEN bin_ddagent
              ELSE staged[i].dst \in dist_folder.files
                      \/ (i < Len(staged) /\ staged[i + 1].op = "move")
        /\ \A j \in (idx + 1)..Len(Plan) : Plan[j].dst \notin dist_folder.files

\* the copy of a conf.d subtree failed after others had been copied
C8_Witness ==
    /\ CopyFailed
    /\ pc = "failed"
    /\ err.what = check_dir("io")
    /\ check_dir("cpu") \in dist_folder.files
    /\ "datadog.yaml" \in dist_folder.files
    /\ check_dir("load") \notin dist_folder.files

Relocated ==
    /\ bin_ddagent
    /\ "dd-agent" \notin dist_folder.files
    /\ \E i \in 1..(Len(staged) - 1) :
          /\ staged[i].op = "copy" /\ staged[i].dst = "dd-agent"
          /\ staged[i + 1].op = "move" /\ staged[i + 1].src = "dd-agent"

\* C9 as stated (launcher relocation): after every successful staging run the
\* stub is in BIN_PATH and not in dist, moved there by a step of its own right
\* after its copy.
C9_LauncherRelocation_Original == StagingDone => Relocated

\* C9 as amended: the same after every successful staging run without puppy;
\* a run with puppy neither copies nor moves the stub.
C9_LauncherRelocation ==
    StagingDone =>
        IF ~ puppy THEN Relocated
        ELSE /\ "dd-agent" \notin dist_folder.files
             /\ \A i \in 1..Len(staged) :
                   staged[i].op # "move" /\ staged[i].dst # "dd-agent"

\* a full-profile run, complete
C9_Witness ==
    /\ StagingDone
    /\ pc = "done"
    /\ ~ puppy
    /\ bin_ddagent
    /\ "dd-agent" \notin dist_folder.files

=============================================================================
